---- MODULE Spec2Model ----
(***************************************************************************)
(* Model of the IPAM address-space engine (backend/app/logic.py) and of    *)
(* the service endpoints that call it (backend/app/main.py).               *)
(*                                                                         *)
(* Address plan.  The code works on 32-bit IPv4 addresses.  The model      *)
(* keeps the structure of the address space and scales its width to        *)
(* AddrBits bits: an "octet" is the top 3 bits of an address (the code's   *)
(* first octet, 8 bits), and the networks the code names keep the          *)
(* alignment pattern of their prefix bits:                                 *)
(*    10.0.0.0/8     -> octet 2 (binary 010),  prefix length 3             *)
(*                      aligned one bit shorter, misaligned below that,    *)
(*                      as 10 = 0000101|0 is for /7 and /6                  *)
(*    172.16.0.0/12  -> binary 1011, prefix length 4, inside octet 5       *)
(*                      misaligned at every shorter prefix                 *)
(*    192.168.0.0/16 -> binary 1100, prefix length 4, inside octet 6       *)
(*                      aligned at some shorter prefixes                   *)
(*    0.0.0.0/8      -> octet 0, private, none of the three scopes         *)
(* A prefix length of AddrBits is the code's /32, AddrBits-1 its /31.      *)
(***************************************************************************)
EXTENDS Integers, Sequences, FiniteSets, TLC

\* Width of an address in bits (32 in the code).
AddrBits == 5
\* Longest list of existing subnets the Free-Block Finder is started with.
MaxExisting == 2
\* Number of consecutive find_next_free_subnet calls followed.
MaxCalls == 4
\* Longest list of existing subnets handed to validate_overlap.
MaxOverlapList == 2
\* Addresses 0 .. ScanSpan-1 hold the subnets given to the Host Scanner.
ScanSpan == 8
\* Addresses 0 .. OvSpan-1 are the ones written in the CIDR strings given
\* to validate_overlap.
OvSpan == 4
\* Number of subnet rows the service is followed to.
MaxSubnets == 3
\* Largest id an IPAddress row is given.
MaxIps == 3

VARIABLES
    namespaces,   \* table Namespace: sequence of rows, id = index
    subnets,      \* table Subnet: sequence of rows, id = index
    ips,          \* table IPAddress: set of rows
    request,      \* the request the service handled last
    response,     \* outcome of the last request handled by the service
    sessions,     \* requests in flight, one database session each
    ov_new,       \* validate_overlap: argument new_cidr
    ov_existing,  \* validate_overlap: argument existing_subnets
    ov_result,    \* validate_overlap: value returned or exception raised
    ov_swapped,   \* the same for the two blocks exchanged (one existing block)
    sc_cidr,      \* get_next_available_ip: argument subnet_cidr
    sc_used,      \* get_next_available_ip: argument allocated_ips
    sc_result,    \* get_next_available_ip: value returned
    fn_root,      \* root CIDR of the namespace a block is suggested for
    fn_existing,  \* find_next_free_subnet: argument existing_subnets
    fn_prefix,    \* find_next_free_subnet: argument prefix_length
    fn_results,   \* values returned by the calls made so far
    fn_iterations,\* iterations of the while loop in the call made last
    ut_count,     \* calculate_utilization: argument allocated_count
    ut_cidr,      \* calculate_utilization: argument cidr
    ut_result     \* calculate_utilization: value returned or exception raised

vars == <<namespaces, subnets, ips, request, response, sessions,
          ov_new, ov_existing, ov_result, ov_swapped,
          sc_cidr, sc_used, sc_result, fn_root, fn_existing, fn_prefix,
          fn_results, fn_iterations, ut_count, ut_cidr, ut_result>>

svc_vars == <<namespaces, subnets, ips, request, response, sessions>>
ov_vars  == <<ov_new, ov_existing, ov_result, ov_swapped>>
sc_vars  == <<sc_cidr, sc_used, sc_result>>
fn_vars  == <<fn_root, fn_existing, fn_prefix, fn_results, fn_iterations>>
ut_vars  == <<ut_count, ut_cidr, ut_result>>

----------------------------------------------------------------------------
(* Values.                                                                 *)

\* Python values are records, so that any two of them can be compared.
None == [none |-> TRUE]
True == [bool |-> TRUE]
False == [bool |-> FALSE]
NotCalled == [called |-> FALSE]
\* An exception propagating out of a call.
Raised(name) == [raised |-> name]
ValueError == Raised("ValueError")
IndexError == Raised("IndexError")
TypeError == Raised("TypeError")

Addr == 0 .. (2^AddrBits - 1)
PrefixLens == 0 .. AddrBits

\* Number of addresses of a block of prefix length len.
BlockSize(len) == 2^(AddrBits - len)

\* A CIDR string "a.b.c.d/n": the address written and the prefix length
\* written.  The address may have host bits set; the length may be out of
\* range, and then the string does not parse.
CidrText(a, len) == [addr |-> a, len |-> len]
BadCidr == CidrText(0, AddrBits + 1)

\* A dotted-quad string as str(IPv4Address) writes it.
IpText(a) == [ip |-> a]

SeqsUpTo(S, n) == UNION {[1..k -> S] : k \in 0..n}

----------------------------------------------------------------------------
(* The ipaddress library, as the code uses it.                             *)

\* ipaddress.ip_network(text, strict): ValueError for an unparsable string
\* and, when strict, for host bits set; otherwise the network, normalised
\* to its base address.
ip_network_keep_host_bits(text, strict) ==
    IF text.len \notin PrefixLens \/ text.addr \notin Addr THEN ValueError
    ELSE IF strict /\ text.addr % BlockSize(text.len) # 0 THEN ValueError
    ELSE [base |-> text.addr, len |-> text.len]

ip_network(text, strict) ==
    IF text.len \notin PrefixLens \/ text.addr \notin Addr THEN ValueError
    ELSE IF strict /\ text.addr % BlockSize(text.len) # 0 THEN ValueError
    ELSE [base |-> text.addr - (text.addr % BlockSize(text.len)),
          len  |-> text.len]

network_address(n) == n.base
broadcast_address(n) == n.base + BlockSize(n.len) - 1
num_addresses(n) == BlockSize(n.len)

\* str(network)
str_network(n) == CidrText(n.base, n.len)

\* address in network: the address masked by the netmask is the base.
Contains(n, a) == a - (a % BlockSize(n.len)) = n.base

overlaps_asym(a, b) ==
    \/ Contains(b, network_address(a))
    \/ Contains(b, broadcast_address(a))

\* IPv4Network.overlaps
overlaps(a, b) ==
    \/ Contains(b, network_address(a))
    \/ Contains(b, broadcast_address(a))
    \/ Contains(a, network_address(b))
    \/ Contains(a, broadcast_address(b))

hosts_all(n) ==
    [i \in 1 .. BlockSize(n.len) |-> n.base + i - 1]

hosts_no_single(n) ==
    LET lo == IF n.len = AddrBits - 1 THEN n.base ELSE n.base + 1
        hi == IF n.len = AddrBits - 1 THEN broadcast_address(n)
              ELSE broadcast_address(n) - 1
    IN [i \in 1 .. (hi - lo + 1) |-> lo + i - 1]

\* IPv4Network.hosts(): base+1 .. broadcast-1 in ascending order; both
\* addresses of a /31; the single address of a /32.
hosts(n) ==
    LET lo == IF n.len >= AddrBits - 1 THEN n.base ELSE n.base + 1
        hi == IF n.len >= AddrBits - 1 THEN broadcast_address(n)
              ELSE broadcast_address(n) - 1
    IN [i \in 1 .. (hi - lo + 1) |-> lo + i - 1]

----------------------------------------------------------------------------
(* logic.py: validate_overlap                                              *)

RECURSIVE overlap_scan(_, _, _)
\* The for loop of validate_overlap from position i on: True at the first
\* overlapping subnet, ValueError at the first subnet that does not parse.
overlap_scan(new_net, existing, i) ==
    IF i > Len(existing) THEN False
    ELSE LET existing_net == ip_network(existing[i].cidr, FALSE)
         IN IF existing_net = ValueError THEN ValueError
            ELSE IF overlaps(new_net, existing_net) THEN True
            ELSE overlap_scan(new_net, existing, i + 1)

validate_overlap_first_only(new_cidr, existing_subnets) ==
    LET new_net == ip_network(new_cidr, FALSE)
    IN IF new_net = ValueError THEN ValueError
       ELSE IF existing_subnets = <<>> THEN False
       ELSE overlap_scan(new_net, <<existing_subnets[1]>>, 1)

validate_overlap(new_cidr, existing_subnets) ==
    LET new_net == ip_network(new_cidr, FALSE)
    IN IF new_net = ValueError THEN ValueError
       ELSE overlap_scan(new_net, existing_subnets, 1)

----------------------------------------------------------------------------
(* logic.py: get_next_available_ip                                         *)

RECURSIVE first_free(_, _, _)
\* The for loop over network.hosts() from position i on.
first_free(hs, allocated_set, i) ==
    IF i > Len(hs) THEN None
    ELSE IF IpText(hs[i]) \notin allocated_set THEN IpText(hs[i])
    ELSE first_free(hs, allocated_set, i + 1)

get_next_available_ip(subnet_cidr, allocated_ips) ==
    LET network == ip_network(subnet_cidr, FALSE)
    IN IF network = ValueError THEN ValueError
       ELSE first_free(hosts(network), allocated_ips, 1)

----------------------------------------------------------------------------
(* logic.py: calculate_utilization                                         *)

ZeroDivisionError == Raised("ZeroDivisionError")

RECURSIVE gcd(_, _)
gcd(a, b) == IF b = 0 THEN a ELSE gcd(b, a % b)

Abs(x) == IF x < 0 THEN 0 - x ELSE x

\* A Python float, held as the fraction it stands for in lowest terms with a
\* positive denominator.  The rounding of the quotient to 53 bits is left
\* out: the values are exact.
Float(num, den) ==
    LET g == gcd(Abs(num), Abs(den))
        sign == IF den < 0 THEN 0 - 1 ELSE 1
    IN [num |-> sign * (num \div g), den |-> sign * (den \div g)]

\* a / b
truediv(a, b) == IF b = 0 THEN ZeroDivisionError ELSE Float(a, b)

\* x * 100.0
times100(x) == IF x = ZeroDivisionError THEN x ELSE Float(x.num * 100, x.den)

calculate_utilization_all_addresses(allocated_count, cidr) ==
    LET network == ip_network(cidr, FALSE)
        total_usable == num_addresses(network)
    IN IF network = ValueError THEN ValueError
       ELSE IF total_usable <= 0
       THEN IF allocated_count > 0 THEN Float(100, 1) ELSE Float(0, 1)
       ELSE times100(truediv(allocated_count, total_usable))

calculate_utilization_negative_only(allocated_count, cidr) ==
    LET network == ip_network(cidr, FALSE)
        total_usable == num_addresses(network) - 2
    IN IF network = ValueError THEN ValueError
       ELSE IF total_usable < 0
       THEN IF allocated_count > 0 THEN Float(100, 1) ELSE Float(0, 1)
       ELSE times100(truediv(allocated_count, total_usable))

calculate_utilization(allocated_count, cidr) ==
    LET network == ip_network(cidr, FALSE)
        total_usable == num_addresses(network) - 2
    IN IF network = ValueError THEN ValueError
       ELSE IF total_usable <= 0
       THEN IF allocated_count > 0 THEN Float(100, 1) ELSE Float(0, 1)
       ELSE times100(truediv(allocated_count, total_usable))

----------------------------------------------------------------------------
(* logic.py: find_next_free_subnet                                         *)

\* Networks of the address plan.
TenBase == 2 * 2^(AddrBits - 3)
TenNet == [base |-> TenBase, len |-> 3]
Net172Base == 11 * 2^(AddrBits - 4)
Net172 == [base |-> Net172Base, len |-> 4]
Net192Base == 12 * 2^(AddrBits - 4)
Net192 == [base |-> Net192Base, len |-> 4]
ZeroNet == [base |-> 0, len |-> 3]

\* First octet of an address, as the text of the address starts with it.
first_octet(a) == a \div 2^(AddrBits - 3)

\* IPv4Address.is_private: the address lies in one of the private networks.
\* ZeroNet stands for the library's private networks other than the three
\* scopes (0.0.0.0/8, 127.0.0.0/8, 169.254.0.0/16, 240.0.0.0/4, ...): the
\* code treats them all alike.
is_private(a) ==
    \E n \in {ZeroNet, TenNet, Net172, Net192} : Contains(n, a)

RECURSIVE parse_all(_, _)
\* Lines 74-79: the networks of the subnets that parse, in list order.
parse_all(existing_subnets, i) ==
    IF i > Len(existing_subnets) THEN <<>>
    ELSE LET n == ip_network(existing_subnets[i].cidr, FALSE)
         IN IF n = ValueError THEN parse_all(existing_subnets, i + 1)
            ELSE <<n>> \o parse_all(existing_subnets, i + 1)

RECURSIVE insert_sorted(_, _)
\* n placed after every network whose base is not greater: list.sort is stable.
insert_sorted(sorted, n) ==
    IF sorted = <<>> THEN <<n>>
    ELSE IF network_address(Head(sorted)) <= network_address(n)
         THEN <<Head(sorted)>> \o insert_sorted(Tail(sorted), n)
         ELSE <<n>> \o sorted

RECURSIVE sort_networks(_, _)
\* networks.sort(key=lambda x: x.network_address)
sort_networks(networks, k) ==
    IF k = 0 THEN <<>>
    ELSE insert_sorted(sort_networks(networks, k - 1), networks[k])

\* Lines 85-94: the scope guessed from the first network.
scope_of(first_net) ==
    IF is_private(network_address(first_net))
    THEN IF first_octet(network_address(first_net)) = first_octet(TenBase)
         THEN TenNet
         ELSE IF first_octet(network_address(first_net)) = first_octet(Net172Base)
         THEN Net172
         ELSE Net192
    ELSE TenNet

RECURSIVE scan_networks_single_step(_, _, _, _, _)
scan_networks_single_step(candidate_net, networks, i, cursor, step) ==
    IF i > Len(networks) THEN [overlap |-> FALSE, next_jump |-> cursor + step]
    ELSE LET n == networks[i]
         IN IF network_address(candidate_net) >= broadcast_address(n)
            THEN scan_networks_single_step(candidate_net, networks, i + 1,
                                           cursor, step)
            ELSE IF overlaps(candidate_net, n)
            THEN [overlap |-> TRUE, next_jump |-> cursor + step]
            ELSE scan_networks_single_step(candidate_net, networks, i + 1,
                                           cursor, step)

RECURSIVE scan_networks_jump_to_broadcast(_, _, _, _, _)
scan_networks_jump_to_broadcast(candidate_net, networks, i, cursor, step) ==
    IF i > Len(networks) THEN [overlap |-> FALSE, next_jump |-> cursor + step]
    ELSE LET n == networks[i]
         IN IF network_address(candidate_net) >= broadcast_address(n)
            THEN scan_networks_jump_to_broadcast(candidate_net, networks,
                                                 i + 1, cursor, step)
            ELSE IF overlaps(candidate_net, n)
            THEN LET jump_target == broadcast_address(n)
                     remainder == jump_target % step
                     aligned == IF remainder # 0
                                THEN jump_target + (step - remainder)
                                ELSE jump_target
                 IN [overlap |-> TRUE,
                     next_jump |-> IF aligned > cursor + step THEN aligned
                                   ELSE cursor + step]
            ELSE scan_networks_jump_to_broadcast(candidate_net, networks,
                                                 i + 1, cursor, step)

RECURSIVE scan_networks(_, _, _, _, _)
\* Lines 128-145: the for loop over the sorted networks from position i on.
\* Yields whether the candidate overlaps and the cursor to jump to.
scan_networks(candidate_net, networks, i, cursor, step) ==
    IF i > Len(networks) THEN [overlap |-> FALSE, next_jump |-> cursor + step]
    ELSE LET n == networks[i]
         IN IF network_address(candidate_net) >= broadcast_address(n)
            THEN scan_networks(candidate_net, networks, i + 1, cursor, step)
            ELSE IF overlaps(candidate_net, n)
            THEN LET jump_target == broadcast_address(n) + 1
                     remainder == jump_target % step
                     aligned == IF remainder # 0
                                THEN jump_target + (step - remainder)
                                ELSE jump_target
                 IN [overlap |-> TRUE,
                     next_jump |-> IF aligned > cursor + step THEN aligned
                                   ELSE cursor + step]
            ELSE scan_networks(candidate_net, networks, i + 1, cursor, step)

RECURSIVE gap_hop(_, _, _, _)
\* Lines 116-152: the while loop from the given cursor on.
gap_hop(cursor, limit, networks, prefix_length) ==
    LET step == BlockSize(prefix_length)
        candidate_net == ip_network(CidrText(cursor, prefix_length), TRUE)
    IN IF cursor > limit THEN None
       ELSE IF candidate_net = ValueError
       THEN gap_hop(cursor + step, limit, networks, prefix_length)
       ELSE LET r == scan_networks(candidate_net, networks, 1, cursor, step)
            IN IF ~ r.overlap THEN str_network(candidate_net)
               ELSE gap_hop(r.next_jump, limit, networks, prefix_length)

find_next_free_subnet(existing_subnets, prefix_length) ==
    IF existing_subnets = <<>> THEN CidrText(TenBase, prefix_length)
    ELSE LET parsed == parse_all(existing_subnets, 1)
             networks == sort_networks(parsed, Len(parsed))
         IN IF networks = <<>> THEN IndexError
            ELSE LET scope == scope_of(networks[1])
                     candidate == ip_network(
                         CidrText(network_address(scope), prefix_length), TRUE)
                 IN IF candidate = ValueError THEN None
                    ELSE gap_hop(network_address(scope),
                                 broadcast_address(scope),
                                 networks, prefix_length)

RECURSIVE gap_hop_iterations(_, _, _, _)
\* Lines 116-150: the iterations the while loop makes from the given cursor
\* on.  Each holds the cursor, whether a candidate was built and tested at
\* it, whether the for loop found an overlap, and the cursor it leaves.
gap_hop_iterations(cursor, limit, networks, prefix_length) ==
    LET step == BlockSize(prefix_length)
        candidate_net == ip_network(CidrText(cursor, prefix_length), TRUE)
    IN IF cursor > limit THEN <<>>
       ELSE IF candidate_net = ValueError
       THEN <<[cursor |-> cursor, tested |-> FALSE, overlap |-> FALSE,
               next |-> cursor + step]>>
            \o gap_hop_iterations(cursor + step, limit, networks,
                                  prefix_length)
       ELSE LET r == scan_networks(candidate_net, networks, 1, cursor, step)
            IN <<[cursor |-> cursor, tested |-> TRUE, overlap |-> r.overlap,
                  next |-> r.next_jump]>>
               \o (IF ~ r.overlap THEN <<>>
                   ELSE gap_hop_iterations(r.next_jump, limit, networks,
                                           prefix_length))

\* The iterations of the while loop in a call of find_next_free_subnet; none
\* when the call ends before the loop.
find_next_free_subnet_iterations(existing_subnets, prefix_length) ==
    IF existing_subnets = <<>> THEN <<>>
    ELSE LET parsed == parse_all(existing_subnets, 1)
             networks == sort_networks(parsed, Len(parsed))
         IN IF networks = <<>> THEN <<>>
            ELSE LET scope == scope_of(networks[1])
                     candidate == ip_network(
                         CidrText(network_address(scope), prefix_length), TRUE)
                 IN IF candidate = ValueError THEN <<>>
                    ELSE gap_hop_iterations(network_address(scope),
                                            broadcast_address(scope),
                                            networks, prefix_length)

\* app/main.py line 312: the call find_next_free_subnet(existing_subnets,
\* prefix, root_cidr=namespace.cidr).  The function takes no root_cidr
\* parameter, so the call raises TypeError before the body runs.
find_next_free_subnet_root_cidr(existing_subnets, prefix_length, root_cidr) ==
    TypeError

----------------------------------------------------------------------------
(* app/main.py: the service.  Every handler runs in one database session   *)
(* and is modelled as one step.                                            *)

\* Networks of the address plan, as CIDR strings.
TenCidr == str_network(TenNet)
Net172Cidr == str_network(Net172)
Net192Cidr == str_network(Net192)

\* Requests the service is sent.
NamespaceNames == {"Prod", "Dev"}
RootCidrInputs == {TenCidr, Net192Cidr, BadCidr}
SubnetCidrInputs ==
    { TenCidr,
      CidrText(TenBase, 4),                          \* lower half
      CidrText(TenBase + 1, 4),                      \* the same, host bits set
      CidrText(TenBase + BlockSize(4), 4),           \* upper half
      CidrText(TenBase, AddrBits),                   \* first address
      CidrText(TenBase + BlockSize(3) - 1, AddrBits),\* last address
      BadCidr }

Response(op, status, error, details) ==
    [op |-> op, status |-> status, error |-> error, details |-> details]

NoResponse == Response("", 0, "", <<>>)
NoRequest == [op |-> ""]

\* The threads of the server's pool that handle requests, and a session
\* that handles none.
Threads == {"t1", "t2"}
IdleSession == [pc |-> "idle"]

\* select(Subnet).where(Subnet.namespace_id == id), in row order
SubnetsOf(id) == SelectSeq(subnets, LAMBDA s : s.namespace_id = id)

existing_cidrs(rows) == [i \in 1 .. Len(rows) |-> rows[i].cidr]

create_namespace(name, cidr) ==
    /\ request' = [op |-> "create_namespace", name |-> name, cidr |-> cidr]
    /\ IF ip_network(cidr, FALSE) = ValueError
       THEN /\ response' = Response("create_namespace", 400,
                                    "InvalidCIDRError", <<>>)
            /\ UNCHANGED <<namespaces, subnets>>
       ELSE IF \E i \in 1 .. Len(namespaces) : namespaces[i].name = name
       THEN /\ response' = Response("create_namespace", 409,
                                    "DuplicateResourceError", <<>>)
            /\ UNCHANGED <<namespaces, subnets>>
       ELSE /\ namespaces' = Append(namespaces, [name |-> name, cidr |-> cidr])
            /\ response' = Response("create_namespace", 201, "", <<>>)
            /\ UNCHANGED subnets
    /\ UNCHANGED <<ips, sessions, ov_vars, sc_vars, fn_vars, ut_vars>>

create_subnet_unchecked(namespace_id, cidr) ==
    /\ Len(subnets) < MaxSubnets
    /\ request' = [op |-> "create_subnet", namespace_id |-> namespace_id,
                   cidr |-> cidr]
    /\ IF namespace_id \notin 1 .. Len(namespaces)
       THEN /\ response' = Response("create_subnet", 404,
                                    "ResourceNotFoundError", <<>>)
            /\ UNCHANGED <<namespaces, subnets>>
       ELSE /\ subnets' = Append(subnets, [namespace_id |-> namespace_id,
                                           cidr |-> cidr])
            /\ response' = Response("create_subnet", 201, "", <<>>)
            /\ UNCHANGED namespaces
    /\ UNCHANGED <<ips, sessions, ov_vars, sc_vars, fn_vars, ut_vars>>

create_subnet(namespace_id, cidr) ==
    /\ Len(subnets) < MaxSubnets
    /\ request' = [op |-> "create_subnet", namespace_id |-> namespace_id,
                   cidr |-> cidr]
    /\ LET existing_subnets == SubnetsOf(namespace_id)
           checked == IF existing_subnets # <<>>
                      THEN validate_overlap(cidr, existing_subnets)
                      ELSE False
       IN IF namespace_id \notin 1 .. Len(namespaces)
          THEN /\ response' = Response("create_subnet", 404,
                                       "ResourceNotFoundError", <<>>)
               /\ UNCHANGED <<namespaces, subnets>>
          ELSE IF checked = ValueError
          THEN /\ response' = Response("create_subnet", 400,
                                       "InvalidCIDRError", <<>>)
               /\ UNCHANGED <<namespaces, subnets>>
          ELSE IF checked = True
          THEN /\ response' = Response("create_subnet", 409, "CIDROverlapError",
                                       existing_cidrs(existing_subnets))
               /\ UNCHANGED <<namespaces, subnets>>
          ELSE /\ subnets' = Append(subnets, [namespace_id |-> namespace_id,
                                              cidr |-> cidr])
               /\ response' = Response("create_subnet", 201, "", <<>>)
               /\ UNCHANGED namespaces
    /\ UNCHANGED <<ips, sessions, ov_vars, sc_vars, fn_vars, ut_vars>>

suggest_cidr(namespace_id, prefix) ==
    /\ request' = [op |-> "suggest_cidr", namespace_id |-> namespace_id,
                   prefix |-> prefix]
    /\ LET existing_subnets == SubnetsOf(namespace_id)
           suggestion ==
               find_next_free_subnet_root_cidr(
                   existing_subnets, prefix, namespaces[namespace_id].cidr)
       IN IF namespace_id \notin 1 .. Len(namespaces)
          THEN response' = Response("suggest_cidr", 404,
                                    "ResourceNotFoundError", <<>>)
          ELSE IF suggestion \in {TypeError, IndexError, ValueError}
          THEN response' = Response("suggest_cidr", 500, "Exception", <<>>)
          ELSE IF suggestion = None
          THEN response' = Response("suggest_cidr", 400, "ValidationError", <<>>)
          ELSE response' = Response("suggest_cidr", 200, "", <<suggestion>>)
    /\ UNCHANGED <<namespaces, subnets, ips, sessions,
                   ov_vars, sc_vars, fn_vars, ut_vars>>

\* IPStatus
ACTIVE == "active"
RESERVED == "reserved"

\* A string that is no address.
BadIp == IpText(0 - 1)

\* select(IPAddress.address).where(IPAddress.subnet_id == subnet_id)
allocated_ips_of(rows, subnet_id) ==
    {r.address : r \in {x \in rows : x.subnet_id = subnet_id}}

\* The id the database gives a new IPAddress row: the INTEGER PRIMARY KEY of
\* the default SQLite database is the largest id in the table plus one.
next_ip_id(rows) ==
    IF rows = {} THEN 1
    ELSE (CHOOSE i \in {r.id : r \in rows} : \A r \in rows : r.id <= i) + 1

IPAddress(id, subnet_id, address, status) ==
    [id |-> id, subnet_id |-> subnet_id, address |-> address,
     status |-> status]

allocate_ip_no_full_check(subnet_id) ==
    /\ next_ip_id(ips) <= MaxIps
    /\ request' = [op |-> "allocate_ip", subnet_id |-> subnet_id]
    /\ IF subnet_id \notin 1 .. Len(subnets)
       THEN /\ response' = Response("allocate_ip", 404,
                                    "ResourceNotFoundError", <<>>)
            /\ UNCHANGED ips
       ELSE LET allocated_ips == allocated_ips_of(ips, subnet_id)
                next_ip == get_next_available_ip(subnets[subnet_id].cidr,
                                                 allocated_ips)
            IN IF next_ip = ValueError
               THEN /\ response' = Response("allocate_ip", 500, "Exception",
                                            <<>>)
                    /\ UNCHANGED ips
               ELSE /\ ips' = ips \cup {IPAddress(next_ip_id(ips), subnet_id,
                                                  next_ip, ACTIVE)}
                    /\ response' = Response("allocate_ip", 201, "",
                                            <<next_ip>>)
    /\ UNCHANGED <<namespaces, subnets, sessions,
                   ov_vars, sc_vars, fn_vars, ut_vars>>

\* allocate_ip for a request that names no hostname (no Device is looked up
\* or created).
allocate_ip(subnet_id) ==
    /\ next_ip_id(ips) <= MaxIps
    /\ request' = [op |-> "allocate_ip", subnet_id |-> subnet_id]
    /\ IF subnet_id \notin 1 .. Len(subnets)
       THEN /\ response' = Response("allocate_ip", 404,
                                    "ResourceNotFoundError", <<>>)
            /\ UNCHANGED ips
       ELSE LET allocated_ips == allocated_ips_of(ips, subnet_id)
                next_ip == get_next_available_ip(subnets[subnet_id].cidr,
                                                 allocated_ips)
            IN IF next_ip = ValueError
               THEN /\ response' = Response("allocate_ip", 500, "Exception",
                                            <<>>)
                    /\ UNCHANGED ips
               ELSE IF next_ip = None
               THEN /\ response' = Response("allocate_ip", 507,
                                            "SubnetFullError", <<>>)
                    /\ UNCHANGED ips
               ELSE /\ ips' = ips \cup {IPAddress(next_ip_id(ips), subnet_id,
                                                  next_ip, ACTIVE)}
                    /\ response' = Response("allocate_ip", 201, "",
                                            <<next_ip>>)
    /\ UNCHANGED <<namespaces, subnets, sessions,
                   ov_vars, sc_vars, fn_vars, ut_vars>>

\* reserve_ip; address is None when the request names no address.
reserve_ip(subnet_id, address) ==
    /\ next_ip_id(ips) <= MaxIps
    /\ request' = [op |-> "reserve_ip", subnet_id |-> subnet_id,
                   address |-> address]
    /\ IF subnet_id \notin 1 .. Len(subnets)
       THEN /\ response' = Response("reserve_ip", 404,
                                    "ResourceNotFoundError", <<>>)
            /\ UNCHANGED ips
       ELSE LET allocated_ips == allocated_ips_of(ips, subnet_id)
                target_ip ==
                    IF address = None
                    THEN get_next_available_ip(subnets[subnet_id].cidr,
                                               allocated_ips)
                    ELSE address
            IN IF target_ip = ValueError
               THEN /\ response' = Response("reserve_ip", 500, "Exception",
                                            <<>>)
                    /\ UNCHANGED ips
               ELSE IF target_ip = None
               THEN /\ response' = Response("reserve_ip", 507,
                                            "SubnetFullError", <<>>)
                    /\ UNCHANGED ips
               ELSE IF target_ip \in allocated_ips
               THEN /\ response' = Response("reserve_ip", 409,
                                            "DuplicateResourceError", <<>>)
                    /\ UNCHANGED ips
               ELSE /\ ips' = ips \cup {IPAddress(next_ip_id(ips), subnet_id,
                                                  target_ip, RESERVED)}
                    /\ response' = Response("reserve_ip", 201, "",
                                            <<target_ip>>)
    /\ UNCHANGED <<namespaces, subnets, sessions,
                   ov_vars, sc_vars, fn_vars, ut_vars>>

release_ip_keep_row(ip_id) ==
    /\ request' = [op |-> "release_ip", ip_id |-> ip_id]
    /\ IF \E r \in ips : r.id = ip_id
       THEN /\ response' = Response("release_ip", 204, "", <<>>)
            /\ UNCHANGED ips
       ELSE /\ response' = Response("release_ip", 404,
                                    "ResourceNotFoundError", <<>>)
            /\ UNCHANGED ips
    /\ UNCHANGED <<namespaces, subnets, sessions,
                   ov_vars, sc_vars, fn_vars, ut_vars>>

release_ip(ip_id) ==
    /\ request' = [op |-> "release_ip", ip_id |-> ip_id]
    /\ IF \E r \in ips : r.id = ip_id
       THEN /\ ips' = {r \in ips : r.id # ip_id}
            /\ response' = Response("release_ip", 204, "", <<>>)
       ELSE /\ response' = Response("release_ip", 404,
                                    "ResourceNotFoundError", <<>>)
            /\ UNCHANGED ips
    /\ UNCHANGED <<namespaces, subnets, sessions,
                   ov_vars, sc_vars, fn_vars, ut_vars>>

\* session.query(IPAddress).filter(IPAddress.subnet_id == subnet.id,
\*                                 IPAddress.status == IPStatus.ACTIVE).count()
active_count(rows, subnet_id) ==
    Cardinality({r \in rows : r.subnet_id = subnet_id /\ r.status = ACTIVE})

get_subnet(subnet_id) ==
    /\ request' = [op |-> "get_subnet", subnet_id |-> subnet_id]
    /\ IF subnet_id \notin 1 .. Len(subnets)
       THEN response' = Response("get_subnet", 404, "ResourceNotFoundError",
                                 <<>>)
       ELSE LET allocated_count == active_count(ips, subnet_id)
                utilization == calculate_utilization(allocated_count,
                                                     subnets[subnet_id].cidr)
            IN IF utilization = ValueError
               THEN response' = Response("get_subnet", 500, "Exception", <<>>)
               ELSE response' = Response("get_subnet", 200, "",
                                         <<utilization>>)
    /\ UNCHANGED <<namespaces, subnets, ips, sessions,
                   ov_vars, sc_vars, fn_vars, ut_vars>>

\* The query parameter namespace_id: Optional[int] of list_subnets when the
\* request names one; None otherwise.
Some(n) == [int |-> n]

\* list_subnets.  The answer holds, for every subnet listed, its id and its
\* utilization, which is 0.0 when calculate_utilization raised.
list_subnets(namespace_id) ==
    /\ request' = [op |-> "list_subnets", namespace_id |-> namespace_id]
    /\ LET listed == SelectSeq([i \in 1 .. Len(subnets) |->
                                   [id |-> i, row |-> subnets[i]]],
                               LAMBDA x :
                                   IF namespace_id = None THEN TRUE
                                   ELSE IF namespace_id.int = 0 THEN TRUE
                                   ELSE x.row.namespace_id = namespace_id.int)
           result(x) ==
               LET allocated_count == active_count(ips, x.id)
                   utilization == calculate_utilization(allocated_count,
                                                        x.row.cidr)
               IN [id |-> x.id,
                   utilization |-> IF utilization = ValueError
                                   THEN Float(0, 1) ELSE utilization]
       IN response' = Response("list_subnets", 200, "",
                               [i \in 1 .. Len(listed) |-> result(listed[i])])
    /\ UNCHANGED <<namespaces, subnets, ips, sessions,
                   ov_vars, sc_vars, fn_vars, ut_vars>>

CreateNamespace ==
    \E name \in NamespaceNames, cidr \in RootCidrInputs :
        create_namespace(name, cidr)

CreateSubnet ==
    \E id \in 1 .. (Len(namespaces) + 1), cidr \in SubnetCidrInputs :
        create_subnet(id, cidr)

SuggestCidr ==
    \E id \in 1 .. (Len(namespaces) + 1), prefix \in PrefixLens :
        suggest_cidr(id, prefix)

OvIdle == ov_new = BadCidr /\ ov_existing = <<>> /\ ov_result = NotCalled
          /\ ov_swapped = NotCalled
ScIdle == sc_cidr = BadCidr /\ sc_used = {} /\ sc_result = NotCalled
FnIdle == fn_root = BadCidr /\ fn_existing = <<>> /\ fn_prefix = 0
          /\ fn_results = <<>> /\ fn_iterations = <<>>
UtIdle == ut_count = 0 /\ ut_cidr = BadCidr /\ ut_result = NotCalled
SvcIdle == /\ namespaces = <<>> /\ subnets = <<>> /\ ips = {}
           /\ request = NoRequest /\ response = NoResponse
           /\ sessions = [t \in Threads |-> IdleSession]

Init == SvcIdle /\ OvIdle /\ ScIdle /\ FnIdle /\ UtIdle

Next == CreateNamespace \/ CreateSubnet \/ SuggestCidr

Spec == Init /\ [][Next]_vars

----------------------------------------------------------------------------
(* The address endpoints, on a namespace that holds subnets already.       *)

\* Subnet tables create_subnet leaves behind in one namespace: a block of
\* four addresses, a /31, a /32, two blocks of four, and a CIDR that does
\* not parse stored as the first subnet.
SubnetRow(cidr) == [namespace_id |-> 1, cidr |-> cidr]
AddressTables ==
    { <<SubnetRow(CidrText(TenBase, AddrBits - 2))>>,
      <<SubnetRow(CidrText(TenBase, AddrBits - 1))>>,
      <<SubnetRow(CidrText(TenBase, AddrBits))>>,
      <<SubnetRow(CidrText(TenBase, AddrBits - 2)),
        SubnetRow(CidrText(TenBase + 4, AddrBits - 2))>>,
      <<SubnetRow(BadCidr)>> }

\* Addresses named in reserve_ip requests: from the address before the first
\* subnet to the base of the block after it, and a string that is no address.
ReserveInputs ==
    {None, BadIp} \cup {IpText(a) : a \in (TenBase - 1) .. (TenBase + 4)}

InitAddresses ==
    /\ OvIdle /\ ScIdle /\ FnIdle /\ UtIdle
    /\ namespaces = <<[name |-> "Prod", cidr |-> TenCidr]>>
    /\ subnets \in AddressTables
    /\ ips = {}
    /\ request = NoRequest /\ response = NoResponse
    /\ sessions = [t \in Threads |-> IdleSession]

AllocateIp ==
    \E subnet_id \in 1 .. (Len(subnets) + 1) : allocate_ip(subnet_id)

ReserveIp ==
    \E subnet_id \in 1 .. (Len(subnets) + 1), address \in ReserveInputs :
        reserve_ip(subnet_id, address)

ReleaseIp ==
    \E ip_id \in 1 .. MaxIps : release_ip(ip_id)

GetSubnet ==
    \E subnet_id \in 1 .. (Len(subnets) + 1) : get_subnet(subnet_id)

ListSubnets ==
    \E namespace_id \in
           {None} \cup {Some(n) : n \in 0 .. (Len(namespaces) + 1)} :
        list_subnets(namespace_id)

NextAddresses == AllocateIp \/ ReserveIp \/ ReleaseIp

SpecAddresses == InitAddresses /\ [][NextAddresses]_vars

\* Addresses are handed out and reserved, and the subnets are read.
NextReport == AllocateIp \/ ReserveIp \/ GetSubnet \/ ListSubnets

SpecReport == InitAddresses /\ [][NextReport]_vars

\* allocate_ip requests one after the other, on subnets that hold no address
\* rows at the start: one block of four addresses at any aligned base, or
\* two such blocks, or one of the tables above.
FillCidrs == {CidrText(4 * b, AddrBits - 2) : b \in 0 .. 7}
FillTables ==
    AddressTables
    \cup {<<SubnetRow(c)>> : c \in FillCidrs}
    \cup {<<SubnetRow(c), SubnetRow(CidrText(c.addr + 4, AddrBits - 2))>> :
              c \in {d \in FillCidrs : d.addr < 8}}

InitFill ==
    /\ OvIdle /\ ScIdle /\ FnIdle /\ UtIdle
    /\ namespaces = <<[name |-> "Prod", cidr |-> TenCidr]>>
    /\ subnets \in FillTables
    /\ ips = {}
    /\ request = NoRequest /\ response = NoResponse
    /\ sessions = [t \in Threads |-> IdleSession]

NextFill == AllocateIp

SpecFill == InitFill /\ [][NextFill]_vars

----------------------------------------------------------------------------
(* Requests handled at the same time.  The handlers are plain functions,   *)
(* which the server runs in its thread pool, each with a database session  *)
(* of its own (get_session).  A handler reads with select statements and   *)
(* writes at session.commit(); nothing locks the rows it read, so another  *)
(* handler's commit can land between the two.  A handler is two steps      *)
(* here: its reads, and the rest up to the commit and the answer.          *)

RaceCidrInputs ==
    { CidrText(TenBase, AddrBits - 2),
      CidrText(TenBase, AddrBits - 1),
      CidrText(TenBase + 2, AddrBits - 1) }

\* create_subnet up to the select of the namespace's subnets.
create_subnet_read(t, namespace_id, cidr) ==
    /\ sessions[t].pc = "idle"
    /\ Len(subnets) < MaxSubnets
    /\ request' = [op |-> "create_subnet", namespace_id |-> namespace_id,
                   cidr |-> cidr]
    /\ IF namespace_id \notin 1 .. Len(namespaces)
       THEN /\ response' = Response("create_subnet", 404,
                                    "ResourceNotFoundError", <<>>)
            /\ UNCHANGED sessions
       ELSE /\ sessions' = [sessions EXCEPT ![t] =
                   [pc |-> "create_subnet", namespace_id |-> namespace_id,
                    cidr |-> cidr,
                    existing_subnets |-> SubnetsOf(namespace_id)]]
            /\ UNCHANGED response
    /\ UNCHANGED <<namespaces, subnets, ips,
                   ov_vars, sc_vars, fn_vars, ut_vars>>

\* create_subnet from the overlap check to the commit.
create_subnet_commit(t) ==
    /\ sessions[t].pc = "create_subnet"
    /\ LET existing_subnets == sessions[t].existing_subnets
           cidr == sessions[t].cidr
           checked == IF existing_subnets # <<>>
                      THEN validate_overlap(cidr, existing_subnets)
                      ELSE False
       IN IF checked = ValueError
          THEN /\ response' = Response("create_subnet", 400,
                                       "InvalidCIDRError", <<>>)
               /\ UNCHANGED subnets
          ELSE IF checked = True
          THEN /\ response' = Response("create_subnet", 409, "CIDROverlapError",
                                       existing_cidrs(existing_subnets))
               /\ UNCHANGED subnets
          ELSE /\ subnets' = Append(subnets,
                                    [namespace_id |-> sessions[t].namespace_id,
                                     cidr |-> cidr])
               /\ response' = Response("create_subnet", 201, "", <<>>)
    /\ sessions' = [sessions EXCEPT ![t] = IdleSession]
    /\ UNCHANGED <<namespaces, ips, request,
                   ov_vars, sc_vars, fn_vars, ut_vars>>

\* allocate_ip up to the select of the subnet's addresses.
allocate_ip_read(t, subnet_id) ==
    /\ sessions[t].pc = "idle"
    /\ request' = [op |-> "allocate_ip", subnet_id |-> subnet_id]
    /\ IF subnet_id \notin 1 .. Len(subnets)
       THEN /\ response' = Response("allocate_ip", 404,
                                    "ResourceNotFoundError", <<>>)
            /\ UNCHANGED sessions
       ELSE /\ sessions' = [sessions EXCEPT ![t] =
                   [pc |-> "allocate_ip", subnet_id |-> subnet_id,
                    cidr |-> subnets[subnet_id].cidr,
                    allocated_ips |-> allocated_ips_of(ips, subnet_id)]]
            /\ UNCHANGED response
    /\ UNCHANGED <<namespaces, subnets, ips,
                   ov_vars, sc_vars, fn_vars, ut_vars>>

\* allocate_ip from get_next_available_ip to the commit.
allocate_ip_commit(t) ==
    /\ sessions[t].pc = "allocate_ip"
    /\ next_ip_id(ips) <= MaxIps
    /\ LET next_ip == get_next_available_ip(sessions[t].cidr,
                                            sessions[t].allocated_ips)
       IN IF next_ip = ValueError
          THEN /\ response' = Response("allocate_ip", 500, "Exception", <<>>)
               /\ UNCHANGED ips
          ELSE IF next_ip = None
          THEN /\ response' = Response("allocate_ip", 507, "SubnetFullError",
                                       <<>>)
               /\ UNCHANGED ips
          ELSE /\ ips' = ips \cup {IPAddress(next_ip_id(ips),
                                             sessions[t].subnet_id,
                                             next_ip, ACTIVE)}
               /\ response' = Response("allocate_ip", 201, "", <<next_ip>>)
    /\ sessions' = [sessions EXCEPT ![t] = IdleSession]
    /\ UNCHANGED <<namespaces, subnets, request,
                   ov_vars, sc_vars, fn_vars, ut_vars>>

InitRace ==
    /\ OvIdle /\ ScIdle /\ FnIdle /\ UtIdle
    /\ namespaces = <<[name |-> "Prod", cidr |-> TenCidr]>>
    /\ subnets = <<>>
    /\ ips = {}
    /\ request = NoRequest /\ response = NoResponse
    /\ sessions = [t \in Threads |-> IdleSession]

CreateSubnetRead ==
    \E t \in Threads, id \in 1 .. (Len(namespaces) + 1),
       cidr \in RaceCidrInputs :
        create_subnet_read(t, id, cidr)

CreateSubnetCommit == \E t \in Threads : create_subnet_commit(t)

AllocateIpRead ==
    \E t \in Threads, subnet_id \in 1 .. (Len(subnets) + 1) :
        allocate_ip_read(t, subnet_id)

AllocateIpCommit == \E t \in Threads : allocate_ip_commit(t)

NextRace ==
    \/ CreateSubnetRead \/ CreateSubnetCommit
    \/ AllocateIpRead \/ AllocateIpCommit

SpecRace == InitRace /\ [][NextRace]_vars

----------------------------------------------------------------------------
(* validate_overlap as a function of its arguments.                        *)

OverlapLens == {0, AddrBits - 2, AddrBits - 1, AddrBits}
OverlapCidrs ==
    {CidrText(a, len) : a \in 0 .. (OvSpan - 1), len \in OverlapLens}
        \cup {BadCidr}
OverlapRows == {[cidr |-> c] : c \in OverlapCidrs}

InitOverlap ==
    /\ SvcIdle /\ ScIdle /\ FnIdle /\ UtIdle
    /\ ov_new \in OverlapCidrs
    /\ ov_existing \in SeqsUpTo(OverlapRows, MaxOverlapList)
    /\ ov_result = NotCalled
    /\ ov_swapped = NotCalled

CallValidateOverlap ==
    /\ ov_result = NotCalled
    /\ ov_result' = validate_overlap(ov_new, ov_existing)
    /\ UNCHANGED <<ov_new, ov_existing, ov_swapped, svc_vars, ut_vars, sc_vars, fn_vars>>

CallValidateOverlapSwapped ==
    /\ ov_result # NotCalled
    /\ ov_swapped = NotCalled
    /\ Len(ov_existing) = 1
    /\ ov_swapped' = validate_overlap(ov_existing[1].cidr, <<[cidr |-> ov_new]>>)
    /\ UNCHANGED <<ov_new, ov_existing, ov_result, svc_vars, ut_vars, sc_vars, fn_vars>>

NextOverlap == CallValidateOverlap \/ CallValidateOverlapSwapped

SpecOverlap == InitOverlap /\ [][NextOverlap]_vars

----------------------------------------------------------------------------
(* get_next_available_ip as a function of its arguments.  The code turns   *)
(* allocated_ips into a set first; the set is the argument here.           *)

ScanCidrs ==
    {c \in {CidrText(a, len) : a \in 0 .. (ScanSpan - 1), len \in PrefixLens} :
        (c.addr \div BlockSize(c.len)) * BlockSize(c.len) + BlockSize(c.len)
            <= ScanSpan}
ScanUsed == {IpText(a) : a \in 0 .. (ScanSpan + 1)}

InitScanner ==
    /\ SvcIdle /\ OvIdle /\ FnIdle /\ UtIdle
    /\ sc_cidr \in ScanCidrs
    /\ sc_used \in SUBSET ScanUsed
    /\ sc_result = NotCalled

CallGetNextAvailableIp ==
    /\ sc_result = NotCalled
    /\ sc_result' = get_next_available_ip(sc_cidr, sc_used)
    /\ UNCHANGED <<sc_cidr, sc_used, svc_vars, ut_vars, ov_vars, fn_vars>>

NextScanner == CallGetNextAvailableIp

SpecScanner == InitScanner /\ [][NextScanner]_vars

----------------------------------------------------------------------------
(* find_next_free_subnet as a function of its arguments, called again and  *)
(* again with each block it returns added to the existing subnets.         *)

\* Blocks inside a network: the network, its lower half, its first two
\* addresses and its last address.
BlocksIn(n) ==
    { str_network(n),
      CidrText(n.base, n.len + 1),
      CidrText(n.base, AddrBits),
      CidrText(n.base + 1, AddrBits),
      CidrText(broadcast_address(n), AddrBits) }

FinderCidrs ==
    BlocksIn(TenNet) \cup BlocksIn(Net172) \cup BlocksIn(Net192)
        \cup { CidrText(0, 0), CidrText(0, 1), CidrText(TenBase, 2),
               CidrText(0, 3), CidrText(BlockSize(3), 3),
               CidrText(5 * BlockSize(3), 3), CidrText(6 * BlockSize(3), 3),
               BadCidr }
FinderRows == {[cidr |-> c] : c \in FinderCidrs}
FinderRoots == {TenCidr, Net192Cidr}

IsCidr(r) == r # None /\ r # IndexError /\ r # NotCalled

InitFinder ==
    /\ SvcIdle /\ OvIdle /\ ScIdle /\ UtIdle
    /\ fn_root \in FinderRoots
    /\ fn_existing \in SeqsUpTo(FinderRows, MaxExisting)
    /\ fn_prefix \in PrefixLens
    /\ fn_results = <<>>
    /\ fn_iterations = <<>>

CallFindNextFreeSubnet ==
    /\ Len(fn_results) < MaxCalls
    /\ IF fn_results = <<>> THEN TRUE ELSE IsCidr(fn_results[Len(fn_results)])
    /\ LET r == find_next_free_subnet(fn_existing, fn_prefix)
       IN /\ fn_results' = Append(fn_results, r)
          /\ fn_existing' = IF IsCidr(r) THEN Append(fn_existing, [cidr |-> r])
                            ELSE fn_existing
    /\ fn_iterations' = find_next_free_subnet_iterations(fn_existing, fn_prefix)
    /\ UNCHANGED <<fn_root, fn_prefix, svc_vars, ut_vars, ov_vars, sc_vars>>

NextFinder == CallFindNextFreeSubnet

SpecFinder == InitFinder /\ [][NextFinder]_vars

----------------------------------------------------------------------------
(* calculate_utilization as a function of its arguments.                   *)

UtilCidrs ==
    {CidrText(a, len) : a \in {0, 1, TenBase}, len \in PrefixLens}
        \cup {BadCidr}
UtilCounts == 0 .. 2^AddrBits

InitUtilization ==
    /\ SvcIdle /\ OvIdle /\ ScIdle /\ FnIdle
    /\ ut_cidr \in UtilCidrs
    /\ ut_count \in UtilCounts
    /\ ut_result = NotCalled

CallCalculateUtilization ==
    /\ ut_result = NotCalled
    /\ ut_result' = calculate_utilization(ut_count, ut_cidr)
    /\ UNCHANGED <<ut_count, ut_cidr, svc_vars, ov_vars, sc_vars, fn_vars>>

NextUtilization == CallCalculateUtilization

SpecUtilization == InitUtilization /\ [][NextUtilization]_vars

----------------------------------------------------------------------------
(* Blocks as the specification describes them: a base aligned to the       *)
(* prefix length, and the addresses from the base to the broadcast.        *)

Parses(text) == text.len \in PrefixLens /\ text.addr \in Addr
BaseOf(text) == (text.addr \div BlockSize(text.len)) * BlockSize(text.len)
BroadcastOf(text) == BaseOf(text) + BlockSize(text.len) - 1
RangeOf(text) == BaseOf(text) .. BroadcastOf(text)
Intersect(s, t) == BaseOf(s) <= BroadcastOf(t) /\ BaseOf(t) <= BroadcastOf(s)

\* C1: no two subnets stored under the same namespace_id have overlapping
\* address ranges.
C1_NoOverlapInNamespace ==
    \A i, j \in 1 .. Len(subnets) :
        ( /\ i < j
          /\ subnets[i].namespace_id = subnets[j].namespace_id
          /\ Parses(subnets[i].cidr) /\ Parses(subnets[j].cidr) )
        => RangeOf(subnets[i].cidr) \cap RangeOf(subnets[j].cidr) = {}

\* C1 witness: a namespace holds two subnets and a later candidate was
\* refused for overlap.
C1_Witness ==
    /\ response.op = "create_subnet" /\ response.status = 409
    /\ \E i, j \in 1 .. Len(subnets) :
          /\ i < j
          /\ subnets[i].namespace_id = subnets[j].namespace_id
          /\ Parses(subnets[i].cidr) /\ Parses(subnets[j].cidr)

\* C6: validate_overlap returns True exactly when some existing block m has
\* candidate.base <= m.broadcast and m.base <= candidate.broadcast (blocks
\* normalised to their aligned base), that is, when the address ranges meet.
C6_OverlapIffIntervalsMeet ==
    ov_result \in {True, False} =>
        /\ ov_result.bool =
              (\E i \in 1 .. Len(ov_existing) :
                   /\ Parses(ov_existing[i].cidr)
                   /\ Intersect(ov_new, ov_existing[i].cidr))
        /\ ov_result.bool =
              (\E i \in 1 .. Len(ov_existing) :
                   /\ Parses(ov_existing[i].cidr)
                   /\ RangeOf(ov_new) \cap RangeOf(ov_existing[i].cidr) # {})

\* C6 witness: True is returned for a candidate that lies inside the second
\* existing block and is disjoint from the first.
C6_Witness ==
    /\ ov_result = True
    /\ Len(ov_existing) = 2
    /\ ~ Intersect(ov_new, ov_existing[1].cidr)
    /\ RangeOf(ov_new) \subseteq RangeOf(ov_existing[2].cidr)
    /\ RangeOf(ov_new) # RangeOf(ov_existing[2].cidr)

\* C7: validate_overlap(A, [B]) equals validate_overlap(B, [A]).
C7_OverlapSymmetric ==
    (Len(ov_existing) = 1 /\ ov_swapped # NotCalled) => ov_swapped = ov_result

\* C7 witness: both calls were made for a block and a strict superset of it,
\* and both returned True.
C7_Witness ==
    /\ Len(ov_existing) = 1
    /\ ov_swapped = True /\ ov_result = True
    /\ RangeOf(ov_new) \subseteq RangeOf(ov_existing[1].cidr)
    /\ RangeOf(ov_new) # RangeOf(ov_existing[1].cidr)

----------------------------------------------------------------------------
(* Host Scanner.                                                           *)

\* The host range of a block as the specification defines it.
HostRange(text) ==
    IF text.len >= AddrBits - 1 THEN RangeOf(text)
    ELSE (BaseOf(text) + 1) .. (BroadcastOf(text) - 1)
FreeHosts(text, used) == {a \in HostRange(text) : IpText(a) \notin used}
Smallest(S) == CHOOSE a \in S : \A b \in S : a <= b

\* C4: get_next_available_ip returns the smallest address of the host range
\* that is not in used, and None exactly when the whole host range is in
\* used; used addresses outside the subnet change nothing.
C4_SmallestFreeHost ==
    sc_result # NotCalled =>
        /\ sc_result = IF FreeHosts(sc_cidr, sc_used) = {} THEN None
                       ELSE IpText(Smallest(FreeHosts(sc_cidr, sc_used)))
        /\ (sc_result = None) =
               (\A a \in HostRange(sc_cidr) : IpText(a) \in sc_used)
        /\ sc_result = get_next_available_ip(sc_cidr,
               {u \in sc_used : u.ip \in RangeOf(sc_cidr)})

\* C4 witness: the first two hosts are used, an address outside the subnet is
\* used too, and the third host is returned.
C4_Witness ==
    /\ sc_cidr.len <= AddrBits - 3
    /\ IpText(BaseOf(sc_cidr) + 1) \in sc_used
    /\ IpText(BaseOf(sc_cidr) + 2) \in sc_used
    /\ \E u \in sc_used : u.ip \notin RangeOf(sc_cidr)
    /\ sc_result = IpText(BaseOf(sc_cidr) + 3)

\* C5: for a prefix length of at most 30 the network and the broadcast
\* address are never returned; a /31 yields its first address when that is
\* free and its second one otherwise; a /32 yields its single address.
C5_NetworkAndBroadcastExcluded ==
    sc_result # NotCalled =>
        /\ sc_cidr.len <= AddrBits - 2 =>
               /\ sc_result # IpText(BaseOf(sc_cidr))
               /\ sc_result # IpText(BroadcastOf(sc_cidr))
        /\ (sc_cidr.len >= AddrBits - 1
              /\ IpText(BaseOf(sc_cidr)) \notin sc_used) =>
               sc_result = IpText(BaseOf(sc_cidr))
        /\ (sc_cidr.len = AddrBits - 1
              /\ IpText(BaseOf(sc_cidr)) \in sc_used
              /\ IpText(BroadcastOf(sc_cidr)) \notin sc_used) =>
               sc_result = IpText(BroadcastOf(sc_cidr))

\* C5 witness: the second address of a /31 is returned.
C5_Witness ==
    /\ sc_cidr.len = AddrBits - 1
    /\ sc_result = IpText(BroadcastOf(sc_cidr))

----------------------------------------------------------------------------
(* Free-Block Finder.                                                      *)

\* Number of rows fn_existing held before the first call.
Given == Len(fn_existing)
          - Cardinality({k \in 1 .. Len(fn_results) : IsCidr(fn_results[k])})
\* The existing subnets handed to call k.
ExistingAt(k) == SubSeq(fn_existing, 1, Given + k - 1)

\* The scope call k searches.
ScopeAt(k) ==
    LET parsed == parse_all(ExistingAt(k), 1)
    IN IF parsed = <<>> THEN TenNet
       ELSE scope_of(sort_networks(parsed, Len(parsed))[1])

\* Bases of the aligned blocks of the requested size that lie inside the
\* scope of call k and meet no existing block.
FreeBases(k) ==
    LET scope == ScopeAt(k)
        size == BlockSize(fn_prefix)
    IN {b \in network_address(scope) .. broadcast_address(scope) :
          /\ b % size = 0
          /\ b + size - 1 <= broadcast_address(scope)
          /\ \A i \in 1 .. Len(ExistingAt(k)) :
                Parses(ExistingAt(k)[i].cidr) =>
                    ~ Intersect(CidrText(b, fn_prefix), ExistingAt(k)[i].cidr)}

\* C2: a block returned for a non-empty set of existing blocks overlaps none
\* of them; an existing block equal to the candidate is never returned.
C2_ResultMeetsNoExisting ==
    \A k \in 1 .. Len(fn_results) :
        (IsCidr(fn_results[k]) /\ ExistingAt(k) # <<>>) =>
            \A i \in 1 .. Len(ExistingAt(k)) :
                Parses(ExistingAt(k)[i].cidr) =>
                    ~ Intersect(fn_results[k], ExistingAt(k)[i].cidr)

\* C3: the base addresses returned by consecutive calls, each result added
\* to the existing blocks, are strictly increasing.
C3_BasesStrictlyIncrease ==
    \A k \in 1 .. (Len(fn_results) - 1) :
        IsCidr(fn_results[k + 1]) => fn_results[k].addr < fn_results[k + 1].addr

\* C8: when the requested block size fits the scope, a returned block is the
\* lowest aligned block of that size inside the scope that meets no existing
\* block, and None is returned only when the scope holds no such block.
C8_FirstFit ==
    \A k \in 1 .. Len(fn_results) :
        fn_prefix >= ScopeAt(k).len =>
            /\ IsCidr(fn_results[k]) =>
                  /\ FreeBases(k) # {}
                  /\ fn_results[k] = CidrText(Smallest(FreeBases(k)), fn_prefix)
            /\ fn_results[k] = None => FreeBases(k) = {}

\* C9: every block returned has a base address that is a multiple of the
\* block size of the requested prefix length.
C9_ResultAligned ==
    \A k \in 1 .. Len(fn_results) :
        IsCidr(fn_results[k]) =>
            /\ fn_results[k].len = fn_prefix
            /\ fn_results[k].addr % BlockSize(fn_prefix) = 0

\* C10: every block suggested for a namespace, for a prefix length no
\* shorter than that of the namespace's root CIDR, lies inside the root CIDR.
C10_ResultInsideRoot ==
    \A k \in 1 .. Len(fn_results) :
        (IsCidr(fn_results[k]) /\ fn_prefix >= fn_root.len) =>
            /\ fn_results[k].addr \in RangeOf(fn_root)
            /\ fn_results[k].addr + BlockSize(fn_results[k].len) - 1
                   \in RangeOf(fn_root)

\* C11: a call with a prefix length shorter than that of the scope it
\* searches fails with an error of its own: it returns neither a block nor
\* the None that stands for "no space".
C11_CoarsePrefixRaises ==
    \A k \in 1 .. Len(fn_results) :
        fn_prefix < ScopeAt(k).len =>
            /\ fn_results[k] # None
            /\ ~ IsCidr(fn_results[k])

\* C12: with no existing subnets the block returned is the first aligned
\* block of the namespace's root CIDR: the root's base address with the
\* requested prefix length.
C12_EmptyGivesFirstBlockOfRoot ==
    (Given = 0 /\ fn_results # <<>> /\ fn_prefix >= fn_root.len) =>
        fn_results[1] = CidrText(BaseOf(fn_root), fn_prefix)

----------------------------------------------------------------------------
(* Utilization.                                                            *)

IsFloat(x) == x # NotCalled /\ x # ValueError /\ x # ZeroDivisionError

\* C13: for a block of prefix length at most 30 and an allocated count n in
\* 0 .. size-2 the utilization is n / (size-2) * 100: 0.0 for n = 0 and
\* 100.0 for n = size-2.
C13_UtilizationFormula ==
    LET size == BlockSize(ut_cidr.len)
    IN (/\ ut_result # NotCalled
        /\ Parses(ut_cidr) /\ ut_cidr.len <= AddrBits - 2
        /\ ut_count <= size - 2) =>
           /\ IsFloat(ut_result)
           /\ ut_result.den > 0
           /\ ut_result.num * (size - 2) = ut_count * 100 * ut_result.den
           /\ ut_count = 0 => ut_result = [num |-> 0, den |-> 1]
           /\ ut_count = size - 2 => ut_result = [num |-> 100, den |-> 1]

\* C13 witness: half of the six usable addresses of a block of eight are
\* allocated and the utilization is 50.0.
C13_Witness ==
    /\ ut_cidr.len = AddrBits - 3
    /\ ut_count = 3
    /\ ut_result = [num |-> 50, den |-> 1]

\* C14: the utilization is the allocated count over the number of addresses
\* of the host range the Host Scanner hands out: size-2 for prefix lengths
\* up to 30, 2 for a /31 and 1 for a /32.
C14_UtilizationUsesHostCount ==
    LET usable == Cardinality(HostRange(ut_cidr))
    IN (/\ ut_result # NotCalled
        /\ Parses(ut_cidr)
        /\ usable > 0 /\ ut_count <= usable) =>
           /\ IsFloat(ut_result)
           /\ ut_result.num * usable = ut_count * 100 * ut_result.den

\* C15: for every prefix length and every allocated count a value is
\* returned and no division by zero happens; when the usable total the code
\* computes (size-2) is not positive the value is 100.0 for a positive count
\* and 0.0 otherwise.
C15_UtilizationTotal ==
    (ut_result # NotCalled /\ Parses(ut_cidr)) =>
        /\ IsFloat(ut_result)
        /\ BlockSize(ut_cidr.len) - 2 <= 0 =>
              ut_result = IF ut_count > 0 THEN [num |-> 100, den |-> 1]
                          ELSE [num |-> 0, den |-> 1]

\* C15 witness: one address of a /31 is allocated and 100.0 is returned.
C15_Witness ==
    /\ ut_cidr.len = AddrBits - 1
    /\ ut_count = 1
    /\ ut_result = [num |-> 100, den |-> 1]

----------------------------------------------------------------------------
(* The service: subnets.                                                   *)

\* The Subnet table as the request handled last found it.
SubnetsBefore ==
    IF response.op = "create_subnet" /\ response.status = 201
    THEN SubSeq(subnets, 1, Len(subnets) - 1)
    ELSE subnets

\* C16: a create_subnet request whose CIDR does not parse is answered 400
\* InvalidCIDRError and stores nothing, whatever the namespace holds, so that
\* every stored subnet CIDR parses.
C16_UnparsableRejected ==
    /\ \A i \in 1 .. Len(subnets) : Parses(subnets[i].cidr)
    /\ ( /\ request.op = "create_subnet"
         /\ request.namespace_id \in 1 .. Len(namespaces)
         /\ ~ Parses(request.cidr) ) =>
           /\ response.status = 400
           /\ response.error = "InvalidCIDRError"
           /\ subnets = SubnetsBefore

\* C17: a candidate that overlaps subnets of other namespaces only, and none
\* of the namespace it is created in, is admitted.
C17_NamespaceIsolation ==
    ( /\ request.op = "create_subnet"
      /\ request.namespace_id \in 1 .. Len(namespaces)
      /\ Parses(request.cidr)
      /\ \E i \in 1 .. Len(SubnetsBefore) :
            /\ SubnetsBefore[i].namespace_id # request.namespace_id
            /\ Parses(SubnetsBefore[i].cidr)
            /\ Intersect(request.cidr, SubnetsBefore[i].cidr)
      /\ \A i \in 1 .. Len(SubnetsBefore) :
            ( /\ SubnetsBefore[i].namespace_id = request.namespace_id
              /\ Parses(SubnetsBefore[i].cidr) )
            => ~ Intersect(request.cidr, SubnetsBefore[i].cidr) ) =>
        /\ response.status = 201
        /\ subnets = Append(SubnetsBefore,
                            [namespace_id |-> request.namespace_id,
                             cidr |-> request.cidr])

----------------------------------------------------------------------------
(* The service: addresses.                                                 *)

\* C20: the address of every stored IPAddress row lies within the block of
\* the subnet the row belongs to.
C20_AddressInsideSubnet ==
    \A r \in ips :
        Parses(subnets[r.subnet_id].cidr) =>
            r.address.ip \in RangeOf(subnets[r.subnet_id].cidr)

----------------------------------------------------------------------------
(* Requests handled at the same time.                                      *)

\* C18: whatever the interleaving of create_subnet requests, no two subnets
\* stored in one namespace overlap.
C18_NoOverlapUnderConcurrency ==
    \A i, j \in 1 .. Len(subnets) :
        ( /\ i # j
          /\ subnets[i].namespace_id = subnets[j].namespace_id
          /\ Parses(subnets[i].cidr) /\ Parses(subnets[j].cidr) )
        => ~ Intersect(subnets[i].cidr, subnets[j].cidr)

\* C19: whatever the interleaving of allocate_ip requests, no two allocated
\* rows of one subnet hold the same address.
C19_NoAddressTwice ==
    \A r1, r2 \in ips :
        ( /\ r1.id # r2.id
          /\ r1.subnet_id = r2.subnet_id
          /\ r1.status \in {ACTIVE, RESERVED}
          /\ r2.status \in {ACTIVE, RESERVED} )
        => r1.address # r2.address

----------------------------------------------------------------------------
(* The service: addresses handed out and conflicts reported.               *)

\* C21: for a subnet of prefix length at most 30 no stored IPAddress row
\* holds the subnet's network address or its broadcast address.
C21_NoNetworkOrBroadcastRow ==
    \A r \in ips :
        LET cidr == subnets[r.subnet_id].cidr
        IN (Parses(cidr) /\ cidr.len <= AddrBits - 2) =>
              /\ r.address # IpText(BaseOf(cidr))
              /\ r.address # IpText(BroadcastOf(cidr))

\* C22: the blocks a 409 CIDROverlapError carries are the stored subnets of
\* the namespace that overlap the candidate, all of them and no others.
C22_ConflictsAreTheOverlapping ==
    ( /\ request.op = "create_subnet"
      /\ response.status = 409 /\ response.error = "CIDROverlapError" ) =>
        {response.details[i] : i \in 1 .. Len(response.details)}
            = {c \in {subnets[i].cidr : i \in
                        {j \in 1 .. Len(subnets) :
                            subnets[j].namespace_id = request.namespace_id}} :
                  Parses(c) /\ Intersect(request.cidr, c)}

----------------------------------------------------------------------------
(* Free-Block Finder: the gap-hopping loop.                                *)

\* The call made last and the existing subnets it was handed.
LastCall == Len(fn_results)
TestedAt == {i \in 1 .. Len(fn_iterations) : fn_iterations[i].tested}

\* C23: the loop ends, its cursor grows from each iteration to the next, and
\* it tests at most (number of existing blocks + 1) candidates.
C23_LoopBounded ==
    (fn_results # <<>> /\ fn_iterations # <<>>) =>
        /\ \A i \in 1 .. Len(fn_iterations) :
              fn_iterations[i].next > fn_iterations[i].cursor
        /\ \A i \in 1 .. (Len(fn_iterations) - 1) :
              fn_iterations[i].cursor < fn_iterations[i + 1].cursor
        /\ LET last == fn_iterations[Len(fn_iterations)]
           IN \/ last.tested /\ ~ last.overlap
              \/ last.next > broadcast_address(ScopeAt(LastCall))
        /\ Cardinality(TestedAt) <= Len(ExistingAt(LastCall)) + 1
        /\ Cardinality(TestedAt)
              <= Cardinality({i \in 1 .. Len(ExistingAt(LastCall)) :
                                 Parses(ExistingAt(LastCall)[i].cidr)}) + 1

\* C23 witness: one existing block spans two candidate steps; the loop tests
\* two candidates, hopping over the block in one jump.
C23_Witness ==
    /\ fn_results # <<>>
    /\ Len(ExistingAt(LastCall)) = 1
    /\ Len(fn_iterations) = 2
    /\ fn_iterations[1].overlap
    /\ fn_iterations[2].cursor = fn_iterations[1].cursor
                                   + 2 * BlockSize(fn_prefix)
    /\ fn_results[LastCall] = CidrText(fn_iterations[2].cursor, fn_prefix)

\* The existing subnets of the call made last overlap one another nowhere,
\* as the subnets of a namespace do.
ExistingDisjoint ==
    \A i, j \in 1 .. Len(ExistingAt(LastCall)) :
        ( /\ i < j
          /\ Parses(ExistingAt(LastCall)[i].cidr)
          /\ Parses(ExistingAt(LastCall)[j].cidr) )
        => ~ Intersect(ExistingAt(LastCall)[i].cidr,
                       ExistingAt(LastCall)[j].cidr)

\* The smallest multiple of step that is at least x.
MultipleFrom(x, step) == ((x + step - 1) \div step) * step

\* The cursor an iteration leaves is the smallest multiple of the step that
\* is at least n.broadcast + 1 and greater than the cursor, and no candidate
\* of a later iteration overlaps n.
JumpsPast(i, n) ==
    LET it == fn_iterations[i]
        step == BlockSize(fn_prefix)
    IN /\ it.next > it.cursor
       /\ it.next = MultipleFrom(IF BroadcastOf(n) + 1 > it.cursor + 1
                                 THEN BroadcastOf(n) + 1 ELSE it.cursor + 1,
                                 step)
       /\ \A j \in (i + 1) .. Len(fn_iterations) :
             ~ Intersect(CidrText(fn_iterations[j].cursor, fn_prefix), n)

\* The existing blocks the candidate of an iteration overlaps.
OverlappedAt(i) ==
    {n \in {ExistingAt(LastCall)[m].cidr :
                m \in 1 .. Len(ExistingAt(LastCall))} :
        Parses(n) /\ Intersect(CidrText(fn_iterations[i].cursor, fn_prefix), n)}

----------------------------------------------------------------------------
(* The service: the life of the address rows of a subnet.                  *)

\* The rows of a subnet and the addresses they hold.
RowsOf(rows, subnet_id) == {r \in rows : r.subnet_id = subnet_id}
AddressesOf(rows, subnet_id) == {r.address : r \in RowsOf(rows, subnet_id)}

\* C25: in any sequence of allocate_ip, reserve_ip and release_ip requests
\* handled one after the other, a successful allocate_ip returns the
\* smallest host address of the subnet that no row of the subnet held when
\* the request arrived, and stores it in one new ACTIVE row; a successful
\* release_ip removes the row, so that its address is held by no row of the
\* subnet afterwards.
C25_AllocateSmallestFree ==
    [][ /\ (request'.op = "allocate_ip" /\ response'.status = 201) =>
              LET s == request'.subnet_id
                  free == FreeHosts(subnets[s].cidr, AddressesOf(ips, s))
              IN /\ free # {}
                 /\ response'.details = <<IpText(Smallest(free))>>
                 /\ \E r \in ips' :
                       /\ r \notin ips
                       /\ ips' = ips \cup {r}
                       /\ r.subnet_id = s /\ r.status = ACTIVE
                       /\ r.address = IpText(Smallest(free))
        /\ (request'.op = "release_ip" /\ response'.status = 204) =>
              /\ \E r \in ips : r.id = request'.ip_id
              /\ ips' = {r \in ips : r.id # request'.ip_id}
              /\ \A r \in ips :
                     r.id = request'.ip_id =>
                         r.address \notin AddressesOf(ips', r.subnet_id)
      ]_vars

\* C25 witness: allocate_ip has just handed out again an address that an
\* earlier row held and release_ip removed: the newest row of the subnet
\* holds a smaller host address than an older ACTIVE row.
C25_Witness ==
    /\ response.op = "allocate_ip" /\ response.status = 201
    /\ \E r1, r2 \in ips :
          /\ r1.subnet_id = r2.subnet_id
          /\ r1.id < r2.id
          /\ r1.status = ACTIVE /\ r2.status = ACTIVE
          /\ r1.address \in {IpText(a) :
                                a \in HostRange(subnets[r1.subnet_id].cidr)}
          /\ r2.address = response.details[1]
          /\ r2.address.ip < r1.address.ip

\* The rows of every subnet of prefix length at most 30 hold the first hosts
\* of the subnet, handed out in ascending order.
FilledAscending ==
    \A s \in 1 .. Len(subnets) :
        (Parses(subnets[s].cidr) /\ subnets[s].cidr.len <= AddrBits - 2) =>
            LET k == Cardinality(RowsOf(ips, s))
            IN /\ k <= BlockSize(subnets[s].cidr.len) - 2
               /\ AddressesOf(ips, s)
                     = {IpText(BaseOf(subnets[s].cidr) + i) : i \in 1 .. k}
               /\ \A r1, r2 \in RowsOf(ips, s) :
                      r1.id < r2.id => r1.address.ip < r2.address.ip

\* C26: on a subnet of prefix length p <= 30 that holds no address rows,
\* exactly 2^(32-p) - 2 allocate_ip requests in a row succeed, each with the
\* next host address in ascending order; every further one is refused with
\* 507 SubnetFullError and leaves the rows as they were.
C26_FillThenFull ==
    /\ []FilledAscending
    /\ [][ ( /\ request'.op = "allocate_ip"
             /\ request'.subnet_id \in 1 .. Len(subnets)
             /\ Parses(subnets[request'.subnet_id].cidr)
             /\ subnets[request'.subnet_id].cidr.len <= AddrBits - 2 ) =>
               LET s == request'.subnet_id
                   cidr == subnets[s].cidr
                   k == Cardinality(RowsOf(ips, s))
               IN IF k < BlockSize(cidr.len) - 2
                  THEN /\ response'.status = 201
                       /\ response'.details = <<IpText(BaseOf(cidr) + k + 1)>>
                       /\ Cardinality(RowsOf(ips', s)) = k + 1
                  ELSE /\ response'.status = 507
                       /\ response'.error = "SubnetFullError"
                       /\ ips' = ips
         ]_vars

\* C26 witness: a subnet of prefix length at most 30 holds a row for each
\* of its hosts and allocate_ip has just been refused with 507.
C26_Witness ==
    /\ request.op = "allocate_ip"
    /\ response.op = "allocate_ip" /\ response.status = 507
    /\ response.error = "SubnetFullError"
    /\ request.subnet_id \in 1 .. Len(subnets)
    /\ subnets[request.subnet_id].cidr.len <= AddrBits - 2
    /\ Cardinality(RowsOf(ips, request.subnet_id))
          = BlockSize(subnets[request.subnet_id].cidr.len) - 2
    /\ Cardinality(RowsOf(ips, request.subnet_id)) >= 2

\* The utilization u reported for subnet s is 100 * used / (size - 2), where
\* used is the number of rows of the subnet, and it is 100.0 when every host
\* of the subnet is held by a row.
ReportsUsed(s, u) ==
    (Parses(subnets[s].cidr) /\ subnets[s].cidr.len <= AddrBits - 2) =>
        /\ u.num * (BlockSize(subnets[s].cidr.len) - 2)
              = 100 * Cardinality(RowsOf(ips, s)) * u.den
        /\ FreeHosts(subnets[s].cidr, AddressesOf(ips, s)) = {}
              => u = Float(100, 1)

\* C27: the count from which get_subnet and list_subnets compute a subnet's
\* utilization is the number of addresses of the subnet the Host Scanner is
\* given as used (one for every row, ACTIVE or RESERVED); a subnet on
\* which allocate_ip answers 507 is reported at 100.0.
C27_UtilizationCountsUsedRows ==
    /\ (response.op = "get_subnet" /\ response.status = 200) =>
           ReportsUsed(request.subnet_id, response.details[1])
    /\ (response.op = "list_subnets" /\ response.status = 200) =>
           \A i \in 1 .. Len(response.details) :
               ReportsUsed(response.details[i].id,
                           response.details[i].utilization)

----------------------------------------------------------------------------
(* The service: suggestions and the namespace's root block.                *)

\* C28: suggest_cidr for a namespace that exists answers 200 with a
\* suggested CIDR or 400 ValidationError (no available space), and never
\* the generic 500.
C28_SuggestEndsExpected ==
    ( /\ request.op = "suggest_cidr"
      /\ request.namespace_id \in 1 .. Len(namespaces) ) =>
        \/ response.status = 200 /\ Len(response.details) = 1
        \/ response.status = 400 /\ response.error = "ValidationError"

\* C29: after any sequence of create_namespace and create_subnet requests
\* every subnet stored in a namespace lies within the namespace's root
\* block.
C29_SubnetInsideRoot ==
    \A i \in 1 .. Len(subnets) :
        LET root == namespaces[subnets[i].namespace_id].cidr
        IN Parses(subnets[i].cidr) =>
               RangeOf(subnets[i].cidr) \subseteq RangeOf(root)

\* C30: for two blocks A and B validate_overlap reports an overlap exactly
\* when the address range of one contains the range of the other; two
\* blocks never overlap in part, and every block overlaps itself.
C30_OverlapIffNested ==
    (Len(ov_existing) = 1 /\ ov_result \in {True, False}) =>
        LET A == RangeOf(ov_new)
            B == RangeOf(ov_existing[1].cidr)
        IN /\ ov_result.bool = (A \subseteq B \/ B \subseteq A)
           /\ (A \cap B # {}) => (A \subseteq B \/ B \subseteq A)
           /\ (A = B) => ov_result = True

\* C30 witness: True is returned for an existing block that lies strictly
\* inside the candidate and touches neither end of it.
C30_Witness ==
    /\ Len(ov_existing) = 1
    /\ ov_result = True
    /\ Parses(ov_existing[1].cidr)
    /\ BaseOf(ov_new) < BaseOf(ov_existing[1].cidr)
    /\ BroadcastOf(ov_existing[1].cidr) < BroadcastOf(ov_new)

====
